---- MODULE Spec2Model ----
(***************************************************************************)
(* A model of the crawler of task1/hw1/crawler.py: the bounded fetcher     *)
(* (fetch_html), the seed resolver (get_author_pages), the fan-out link    *)
(* collector (collect_text_page_urls), the bounded downloader              *)
(* (download_pages) and the driver (main).                                 *)
(*                                                                         *)
(* A URL of the site is modelled by its path, a sequence of segments:      *)
(* <<"author", "chekhov", "index.html">> is                                *)
(* https://ilibrary.ru/author/chekhov/index.html.  A body is modelled by   *)
(* the lengths of the chunks the transport yields; a decoded page by its   *)
(* number of characters; a file by what was written to it.                 *)
(***************************************************************************)
EXTENDS Integers, Sequences, FiniteSets, TLC

\* ---------------------------------------------------------------- bounds
MaxLinks  == 2      \* anchors on one page
MaxLimit  == 3      \* largest collection limit tried
MaxNeed   == 2      \* largest quota tried
MaxPrev   == 1      \* files left in the store by an earlier run

\* ------------------------------------------------------ program constants
MAX_BYTES    == 5000000
MIN_HTML_LEN == 1000

\* ------------------------------------------------------------------ URLs
AUTHORS_PAGE == <<"author.html">>
A1 == <<"author", "chekhov", "index.html">>
A2 == <<"author", "gogol", "index.html">>
T1 == <<"text", "1", "p.1", "index.html">>
T2 == <<"text", "2", "p.1", "index.html">>
OtherURL == <<"about", "index.html">>
OldURL == <<"text", "0", "p.1", "index.html">>

Slugs == {"chekhov", "gogol"}
TextIds == {"0", "1", "2"}
PageIds == {"p.1"}

\* the absolute URLs an anchor of a fetched page can resolve to
LinkURLs == {A1, A2, T1, T2, OtherURL}

\* re.match(r"^https?://(?:www\.)?ilibrary\.ru/author/[^/]+/index\.html$", u)
AuthorPageMatch(u) ==
    /\ Len(u) = 3
    /\ u[1] = "author"
    /\ u[2] \in Slugs
    /\ u[3] = "index.html"

\* the pattern without its `text/<id>/p.<n>` part
TEXT_PAGE_RE_any_index(u) == u[Len(u)] = "index.html"

\* TEXT_PAGE_RE.match(u)
TEXT_PAGE_RE(u) ==
    /\ Len(u) = 4
    /\ u[1] = "text"
    /\ u[2] \in TextIds
    /\ u[3] \in PageIds
    /\ u[4] = "index.html"

\* str.replace("/index.html", "/l.all/index.html") on the path
RECURSIVE author_to_all_works_url(_)
author_to_all_works_url(u) ==
    IF u = << >> THEN << >>
    ELSE IF Head(u) = "index.html"
         THEN <<"l.all", "index.html">> \o author_to_all_works_url(Tail(u))
         ELSE <<Head(u)>> \o author_to_all_works_url(Tail(u))

\* ------------------------------------------------------------ sequences
RECURSIVE SeqsUpTo(_, _)
SeqsUpTo(S, n) ==
    IF n = 0 THEN {<< >>}
    ELSE LET shorter == SeqsUpTo(S, n - 1)
         IN  shorter \cup {Append(s, x) : s \in {t \in shorter : Len(t) = n - 1}, x \in S}

RECURSIVE SumSeq(_)
SumSeq(s) == IF s = << >> THEN 0 ELSE Head(s) + SumSeq(Tail(s))

Range(s) == {s[k] : k \in 1..Len(s)}

\* ------------------------------------------------------------- responses
(* What the transport answers to one GET, after redirects.                 *)
(*   exc    : session.get raises requests.RequestException                 *)
(*   status : the HTTP status of the final response                        *)
(*   ctype  : the Content-Type header ("" when the header is missing)      *)
(*   chunks : the lengths of the chunks resp.iter_content yields           *)
(*   err    : k > 0 when iter_content raises instead of yielding its k-th  *)
(*            chunk (err = Len(chunks) + 1: the stream breaks at its end)  *)
(*   cont   : bytes of the body that decode to no character of their own   *)
(*            (continuation bytes of multi-byte characters)                *)
Statuses == {200, 404}
Ctypes == {"Text/HTML; charset=utf-8", "application/pdf"}
Bodies ==
    {<< >>, <<999>>, <<1, 999>>, <<MAX_BYTES>>, <<999, MAX_BYTES - 999>>,
     <<MAX_BYTES + 1>>, <<MAX_BYTES, 1>>, <<1, MAX_BYTES>>}

NoResponse ==
    [exc |-> TRUE, status |-> 0, ctype |-> "", chunks |-> << >>, err |-> 0, cont |-> 0]

Response(status, ctype, chunks, err, cont) ==
    [exc |-> FALSE, status |-> status, ctype |-> ctype, chunks |-> chunks,
     err |-> err, cont |-> cont]

\* the responses a run is driven with: a failed request; an answer that is
\* not HTML, an error page and a page with a two-byte character, each of
\* 1000 bytes; and, with status 200 and an HTML type, every body of Bodies,
\* streamed to its end or broken after its last chunk, and two broken midway
Responses ==
    {NoResponse}
    \cup {Response(st, "application/pdf", <<1, 999>>, 0, 0) : st \in Statuses}
    \cup {Response(404, "Text/HTML; charset=utf-8", <<1, 999>>, 0, 0)}
    \cup {Response(200, "Text/HTML; charset=utf-8", <<1, 999>>, 0, 1)}
    \cup {Response(200, "Text/HTML; charset=utf-8", b, 0, 0) : b \in Bodies}
    \cup {Response(200, "Text/HTML; charset=utf-8", b, Len(b) + 1, 0) : b \in Bodies}
    \cup {Response(200, "Text/HTML; charset=utf-8", b, 2, 0) :
             b \in {<<1, 999>>, <<MAX_BYTES, 1>>}}

\* "text/html" in (resp.headers.get("Content-Type") or "").lower()
IsHtmlCtype(ctype) == ctype \in {"Text/HTML; charset=utf-8"}

\* raw.decode(encoding, errors="replace"): the length of the decoded text
Decode(nbytes, cont) == nbytes - cont

\* the values fetch_html can produce: None, a str (by its length), or an
\* exception that leaves the function
RetNone(why, read) == [kind |-> "None", chars |-> 0, why |-> why, chunksRead |-> read]
RetStr(n, read)    == [kind |-> "str", chars |-> n, why |-> "", chunksRead |-> read]
Raised(read)       == [kind |-> "raise", chars |-> 0, why |-> "RequestException", chunksRead |-> read]

\* the streaming loop with the size test `total >= MAX_BYTES`
RECURSIVE IterContentGe(_, _, _)
IterContentGe(resp, k, total) ==
    IF resp.err = k THEN Raised(k - 1)
    ELSE IF k > Len(resp.chunks) THEN RetStr(Decode(total, resp.cont), k - 1)
    ELSE LET chunk == resp.chunks[k]
         IN  IF chunk = 0 THEN IterContentGe(resp, k + 1, total)
             ELSE IF total + chunk >= MAX_BYTES THEN RetNone("too large", k)
             ELSE IterContentGe(resp, k + 1, total + chunk)

\* the streaming loop of fetch_html, from the k-th chunk on, with `total`
\* bytes counted so far
RECURSIVE IterContent(_, _, _)
IterContent(resp, k, total) ==
    IF resp.err = k THEN Raised(k - 1)
    ELSE IF k > Len(resp.chunks) THEN RetStr(Decode(total, resp.cont), k - 1)
    ELSE LET chunk == resp.chunks[k]
         IN  IF chunk = 0 THEN IterContent(resp, k + 1, total)
             ELSE IF total + chunk > MAX_BYTES THEN RetNone("too large", k)
             ELSE IterContent(resp, k + 1, total + chunk)

\* fetch_html with the Content-Type test moved behind the streaming loop
fetch_html_stream_first(resp) ==
    IF resp.exc THEN RetNone("request error", 0)
    ELSE LET streamed == IterContent(resp, 1, 0)
         IN  IF ~IsHtmlCtype(resp.ctype)
             THEN RetNone("not html", streamed.chunksRead)
             ELSE streamed

fetch_html(resp) ==
    IF resp.exc THEN RetNone("request error", 0)
    ELSE IF ~IsHtmlCtype(resp.ctype) THEN RetNone("not html", 0)
    ELSE IterContent(resp, 1, 0)

\* fetch_html with the request repeated once when it raised
fetch_calls_retry(resp) ==
    IF resp.exc THEN <<"polite_sleep", "get", "polite_sleep", "get">>
    ELSE <<"polite_sleep", "get", "close">>

\* the calls fetch_html makes, in order: polite_sleep(), session.get(),
\* and resp.close() on every path that got a response
fetch_calls(resp) ==
    <<"polite_sleep", "get">> \o (IF resp.exc THEN << >> ELSE <<"close">>)

\* the test written `if html is None`
FalsyNoneOnly(res) == res.kind = "None"

\* `if not html`: None and the empty string are both false
Falsy(res) == res.kind = "None" \/ (res.kind = "str" /\ res.chars = 0)

\* extract_links(html, base_url): the absolute URLs of the anchors of a page
\* of `chars` characters, in document order, duplicates kept
extract_links(chars) ==
    {l \in SeqsUpTo(LinkURLs, MaxLinks) : Len(l) <= chars}

\* --------------------------------------------------------------- helpers
\* the author pages returned as they were found, repetitions included
UniqKeepAll(s, seenSoFar) == s

\* "uniquify keeping the order" of get_author_pages
RECURSIVE Uniq(_, _)
Uniq(s, seenSoFar) ==
    IF s = << >> THEN << >>
    ELSE IF Head(s) \in seenSoFar THEN Uniq(Tail(s), seenSoFar)
         ELSE <<Head(s)>> \o Uniq(Tail(s), seenSoFar \cup {Head(s)})

\* the inner loop without the test `u not in seen`
RECURSIVE ScanLinksNoSeen(_, _, _, _)
ScanLinksNoSeen(links, coll, sn, lim) ==
    IF links = << >> THEN [collected |-> coll, seen |-> sn]
    ELSE LET u == Head(links)
         IN  IF TEXT_PAGE_RE(u)
             THEN IF Len(coll) + 1 >= lim
                  THEN [collected |-> Append(coll, u), seen |-> sn \cup {u}]
                  ELSE ScanLinksNoSeen(Tail(links), Append(coll, u), sn \cup {u}, lim)
             ELSE ScanLinksNoSeen(Tail(links), coll, sn, lim)

\* the inner loop without its `break`
RECURSIVE ScanLinksNoBreak(_, _, _, _)
ScanLinksNoBreak(links, coll, sn, lim) ==
    IF links = << >> THEN [collected |-> coll, seen |-> sn]
    ELSE LET u == Head(links)
         IN  IF TEXT_PAGE_RE(u) /\ u \notin sn
             THEN ScanLinksNoBreak(Tail(links), Append(coll, u), sn \cup {u}, lim)
             ELSE ScanLinksNoBreak(Tail(links), coll, sn, lim)

\* the inner loop of collect_text_page_urls over the links of one page;
\* the result is the pair of `collected` and `seen` when the loop is left
RECURSIVE ScanLinks(_, _, _, _)
ScanLinks(links, coll, sn, lim) ==
    IF links = << >> THEN [collected |-> coll, seen |-> sn]
    ELSE LET u == Head(links)
         IN  IF TEXT_PAGE_RE(u) /\ u \notin sn
             THEN IF Len(coll) + 1 >= lim
                  THEN [collected |-> Append(coll, u), seen |-> sn \cup {u}]
                  ELSE ScanLinks(Tail(links), Append(coll, u), sn \cup {u}, lim)
             ELSE ScanLinks(Tail(links), coll, sn, lim)

\* `if len(collected) >= limit: break`
LimitMet(coll, lim) == Len(coll) >= lim

\* the quota test written `saved > need`
QuotaMetLate(savedNow, needed) == savedNow > needed

\* `if saved >= need: break`
QuotaMet(savedNow, needed) == savedNow >= needed

\* the size test written `len(html) <= 1000`
TooSmallLe(html) == html.chars <= MIN_HTML_LEN

\* the size test left out
TooSmallNever(html) == FALSE

\* `if len(html) < 1000: continue`
TooSmall(html) == html.chars < MIN_HTML_LEN

\* the numbering written `num = saved`
NextNumFromZero(savedNow) == savedNow

\* `num = saved + 1`
NextNum(savedNow) == savedNow + 1

\* one line of index.txt, f"{num}\t{url}", and the line separator
IndexLine(num, url) == [t |-> "line", num |-> num, url |-> url]
NL == [t |-> "nl", num |-> 0, url |-> << >>]

\* "\n".join(lines)
RECURSIVE JoinNL(_)
JoinNL(lines) ==
    IF lines = << >> THEN << >>
    ELSE IF Len(lines) = 1 THEN lines
    ELSE <<Head(lines), NL>> \o JoinNL(Tail(lines))

\* the index kept newest first, index_lines.insert(0, ...)
index_prepend(lines, num, url) == <<IndexLine(num, url)>> \o lines

\* index_lines.append(f"{num}\t{url}")
index_append(lines, num, url) == Append(lines, IndexLine(num, url))

\* the text written with a final newline in every case
IndexTextAlwaysNL(lines) == JoinNL(lines) \o <<NL>>

\* the text written to index.txt
IndexText(lines) == JoinNL(lines) \o (IF lines # << >> THEN <<NL>> ELSE << >>)

\* the URLs joined by newlines, with no newline after the last
UrlsTextJoined(urls) ==
    JoinNL([k \in 1..Len(urls) |-> [t |-> "line", num |-> 0, url |-> urls[k]]])

\* the text written to urls.txt: f.write(u + "\n") for every u
RECURSIVE UrlsText(_)
UrlsText(urls) ==
    IF urls = << >> THEN << >>
    ELSE <<[t |-> "line", num |-> 0, url |-> Head(urls)], NL>> \o UrlsText(Tail(urls))

NoFile == [exists |-> FALSE, data |-> << >>]
File(data) == [exists |-> TRUE, data |-> data]

\* the URLs of LinkURLs that are pages of a text
IsTextPageURL(u) == u \in {T1, T2}

\* a sequence without the repetitions of its elements
FirstOccurrences(s) ==
    LET numbered == [k \in 1..Len(s) |-> <<k, s[k]>>]
        first == SelectSeq(numbered, LAMBDA p : \A j \in 1..(p[1] - 1) : s[j] # p[2])
    IN  [k \in 1..Len(first) |-> first[k][2]]

\* ----------------------------------------------------------------- state
VARIABLES
    pc,            \* where main is: "start", "collect", "download", "done", "crashed"
    error,         \* the exception that ended the run, "" if none
    limit,         \* the limit collect_text_page_urls is called with
    need,          \* the quota download_pages is called with
    author_pages,  \* the list get_author_pages returned
    i,             \* collect_text_page_urls: position of the next author
    collected,     \* collect_text_page_urls: collected; then main's urls
    seen,          \* collect_text_page_urls: seen
    pos,           \* download_pages: position of the next url
    saved,         \* download_pages: saved
    index_lines,   \* download_pages: index_lines
    ret,           \* what download_pages returned, -1 before it returns
    dump,          \* OUT_DIR: file number |-> what n.txt holds
    index_txt,     \* INDEX_TXT
    urls_txt,      \* URLS_TXT
    written,       \* the file numbers this run wrote, in the order of writing
    lastFetch,     \* << >> or <<the latest call of fetch_html: its url, the response,
                   \*   the result, the links extracted from the result, and the
                   \*   calls it made>>
    fetchLog,      \* the urls fetch_html was called with, in order
    qualified,     \* the positions of urls whose fetch gave a page of at least
                   \*   MIN_HTML_LEN characters, in order
    firstSeen      \* the text-page URLs linked by the works-list pages that were
                   \*   fetched and parsed, each once, in the order of their first
                   \*   occurrence

vars == <<pc, error, limit, need, author_pages, i, collected, seen, pos, saved,
          index_lines, ret, dump, index_txt, urls_txt, written, lastFetch, fetchLog,
          qualified, firstSeen>>

\* what an earlier, completed run that saved p pages left on disk
OldDump(p) == [n \in 1..p |-> [url |-> OldURL, chars |-> MIN_HTML_LEN]]
OldIndex(p) == IndexText([n \in 1..p |-> IndexLine(n, OldURL)])

\* main calls collect_text_page_urls with limit=1200 and download_pages with
\* MIN_PAGES_TO_DOWNLOAD = 100; the model runs main with every small limit
\* and quota instead, on a disk that is fresh or was left by an earlier run
Init ==
    /\ pc = "start"
    /\ error = ""
    /\ limit \in 0..MaxLimit
    /\ need \in 0..MaxNeed
    /\ author_pages = << >>
    /\ i = 1
    /\ collected = << >>
    /\ seen = {}
    /\ pos = 1
    /\ saved = 0
    /\ index_lines = << >>
    /\ ret = -1
    /\ \E p \in 0..MaxPrev, hadRun \in BOOLEAN :
          /\ p > 0 => hadRun
          /\ dump = OldDump(p)
          /\ index_txt = IF hadRun THEN File(OldIndex(p)) ELSE NoFile
          /\ urls_txt = IF hadRun THEN File(UrlsText(<<OldURL>>)) ELSE NoFile
    /\ written = << >>
    /\ lastFetch = << >>
    /\ fetchLog = << >>
    /\ qualified = << >>
    /\ firstSeen = << >>

\* the bookkeeping of one call fetch_html(url) answered by resp
Fetched(url, resp, links) ==
    /\ lastFetch' = <<[url |-> url, resp |-> resp, res |-> fetch_html(resp),
                       links |-> links, calls |-> fetch_calls(resp)]>>
    /\ fetchLog' = Append(fetchLog, url)

\* a page that download_pages keeps: a str of at least 1000 characters
Qualifies(res) == res.kind = "str" /\ res.chars >= MIN_HTML_LEN

\* the exception caught and logged, the run going on with the collection
CrashLogged(exception) ==
    /\ pc' = "collect"
    /\ error' = exception

\* an exception leaves main: nothing after the raise is executed
Crash(exception) ==
    /\ pc' = "crashed"
    /\ error' = exception

\* main -> collect_text_page_urls -> get_author_pages
GetAuthorPages ==
    /\ pc = "start"
    /\ \E resp \in Responses :
        LET html == fetch_html(resp) IN
        IF html.kind = "raise"
        THEN /\ Fetched(AUTHORS_PAGE, resp, << >>)
             /\ Crash("RequestException")
             /\ UNCHANGED author_pages
        ELSE IF Falsy(html)
        THEN /\ Fetched(AUTHORS_PAGE, resp, << >>)
             /\ Crash("RuntimeError")
             /\ UNCHANGED author_pages
        ELSE \E links \in extract_links(html.chars) :
                   /\ Fetched(AUTHORS_PAGE, resp, links)
                   /\ author_pages' = Uniq(SelectSeq(links, AuthorPageMatch), {})
                   /\ pc' = "collect"
                   /\ UNCHANGED error
    /\ UNCHANGED <<limit, need, i, collected, seen, pos, saved, index_lines, ret,
                   dump, index_txt, urls_txt, written, qualified, firstSeen>>

\* one iteration of the loop over author_pages in collect_text_page_urls
CollectLoop ==
    /\ pc = "collect"
    /\ i <= Len(author_pages)
    /\ ~LimitMet(collected, limit)
    /\ \E resp \in Responses :
        LET all_works_url == author_to_all_works_url(author_pages[i])
            html == fetch_html(resp)
        IN
        IF html.kind = "raise"
        THEN /\ Fetched(all_works_url, resp, << >>)
             /\ Crash("RequestException")
             /\ UNCHANGED <<i, collected, seen, firstSeen>>
        ELSE IF Falsy(html)
        THEN /\ Fetched(all_works_url, resp, << >>)
             /\ i' = i + 1
             /\ UNCHANGED <<pc, error, collected, seen, firstSeen>>
        ELSE \E links \in extract_links(html.chars) :
                   LET after == ScanLinks(links, collected, seen, limit) IN
                   /\ Fetched(all_works_url, resp, links)
                   /\ firstSeen' = FirstOccurrences(firstSeen \o SelectSeq(links, IsTextPageURL))
                   /\ collected' = after.collected
                   /\ seen' = after.seen
                   /\ i' = i + 1
                   /\ UNCHANGED <<pc, error>>
    /\ UNCHANGED <<limit, need, author_pages, pos, saved, index_lines, ret,
                   dump, index_txt, urls_txt, written, qualified>>

\* the loop of collect_text_page_urls is left and `collected` returned; main
\* writes urls.txt and calls download_pages, which sets up its locals
\* (os.makedirs(OUT_DIR, exist_ok=True) leaves the files of OUT_DIR alone)
WriteUrlsTxt ==
    /\ pc = "collect"
    /\ i > Len(author_pages) \/ LimitMet(collected, limit)
    /\ urls_txt' = File(UrlsText(collected))
    /\ index_lines' = << >>
    /\ saved' = 0
    /\ pos' = 1
    /\ pc' = "download"
    /\ UNCHANGED <<error, limit, need, author_pages, i, collected, seen, ret,
                   dump, index_txt, written, lastFetch, fetchLog, qualified, firstSeen>>

\* save_text(os.path.join(OUT_DIR, f"{num}.txt"), html)
save_text(store, num, url, html) ==
    [n \in DOMAIN store \cup {num} |->
        IF n = num THEN [url |-> url, chars |-> html.chars] ELSE store[n]]

\* one iteration of the loop over urls in download_pages
DownloadLoop ==
    /\ pc = "download"
    /\ pos <= Len(collected)
    /\ ~QuotaMet(saved, need)
    /\ \E resp \in Responses :
        LET url == collected[pos]
            html == fetch_html(resp)
        IN
        /\ Fetched(url, resp, << >>)
        /\ qualified' = IF Qualifies(html) THEN Append(qualified, pos) ELSE qualified
        /\ IF html.kind = "raise"
           THEN Crash("RequestException")
                /\ UNCHANGED <<pos, saved, index_lines, dump, written>>
           ELSE IF Falsy(html) \/ TooSmall(html)
           THEN /\ pos' = pos + 1
                /\ UNCHANGED <<pc, error, saved, index_lines, dump, written>>
           ELSE LET num == NextNum(saved) IN
                /\ dump' = save_text(dump, num, url, html)
                /\ written' = Append(written, num)
                /\ index_lines' = index_append(index_lines, num, url)
                /\ saved' = saved + 1
                /\ pos' = pos + 1
                /\ UNCHANGED <<pc, error>>
    /\ UNCHANGED <<limit, need, author_pages, i, collected, seen, ret,
                   index_txt, urls_txt, firstSeen>>

\* the loop of download_pages is left: index.txt is written and `saved`
\* returned to main, which reports and ends
WriteIndexTxt ==
    /\ pc = "download"
    /\ pos > Len(collected) \/ QuotaMet(saved, need)
    /\ index_txt' = File(IndexText(index_lines))
    /\ ret' = saved
    /\ pc' = "done"
    /\ UNCHANGED <<error, limit, need, author_pages, i, collected, seen, pos, saved,
                   index_lines, dump, urls_txt, written, lastFetch, fetchLog,
                   qualified, firstSeen>>

Next ==
    \/ GetAuthorPages
    \/ CollectLoop
    \/ WriteUrlsTxt
    \/ DownloadLoop
    \/ WriteIndexTxt

Spec == Init /\ [][Next]_vars

\* ---------------------------------------------------------------- claims
\* the lines a file of the form of index.txt holds
LinesOf(file) == SelectSeq(file.data, LAMBDA x : x.t = "line")

\* a response that declares HTML
HtmlResponse(r) == ~r.exc /\ IsHtmlCtype(r.ctype)

\* the bytes the body stream of a response yields before it ends or breaks
Streamed(r) ==
    SumSeq(SubSeq(r.chunks, 1, IF r.err = 0 THEN Len(r.chunks) ELSE r.err - 1))

\* C1: when download_pages has returned k, the numbers of the files written
\* by the run, in the order of writing, and the numbers of the lines of
\* index.txt are both 1, 2, ..., k.
C1_SequenceNumbers ==
    pc = "done" =>
        /\ written = [n \in 1..ret |-> n]
        /\ [j \in 1..Len(LinesOf(index_txt)) |-> LinesOf(index_txt)[j].num]
               = [n \in 1..ret |-> n]

C1_Witness == pc = "done" /\ ret = 2 /\ Len(written) = 2

\* C2: at every point of the download, n.txt exists in the store exactly
\* when index.txt holds a line numbered n.
C2_IndexMatchesFiles ==
    pc = "download" =>
        DOMAIN dump = {LinesOf(index_txt)[j].num : j \in 1..Len(LinesOf(index_txt))}

\* C3: no URL occurs at two positions of the collected list.
C3_NoDuplicates ==
    \A a, b \in 1..Len(collected) : a # b => collected[a] # collected[b]

\* the list was returned, and the last works-list page links T1, which an
\* earlier author's page had already contributed
C3_Witness ==
    /\ pc = "download"
    /\ limit = 3
    /\ collected = <<T1, T2>>
    /\ \E f \in Range(lastFetch) : f.links = <<T2, T1>>

\* C4: a response with a status outside 2xx makes fetch_html return None,
\* and its URL is not saved to the corpus.
C4_ErrorStatusIsFailure ==
    \A f \in Range(lastFetch) :
        (~f.resp.exc /\ f.resp.status \notin 200..299) =>
            /\ f.res.kind = "None"
            /\ \A n \in Range(written) : dump[n].url # f.url

\* C5: a run is aborted by a failed fetch only when the fetch is that of
\* the seed page.
C5_OnlySeedAborts ==
    pc = "crashed" => \A f \in Range(lastFetch) : f.url = AUTHORS_PAGE

\* C6: for a response that declares HTML, fetch_html returns None exactly
\* when the streamed bytes exceed MAX_BYTES; a body streamed to its end
\* within MAX_BYTES is returned; and a rejected URL gets no file and no
\* index entry.
C6_SizeCap ==
    \A f \in Range(lastFetch) :
        HtmlResponse(f.resp) =>
            /\ f.res.kind = "None" <=> Streamed(f.resp) > MAX_BYTES
            /\ (f.resp.err = 0 /\ Streamed(f.resp) <= MAX_BYTES) => f.res.kind = "str"
            /\ f.res.kind = "None" =>
                  /\ f.res.chars = 0
                  /\ \A j \in 1..Len(index_lines) : index_lines[j].url # f.url
                  /\ \A n \in Range(written) : dump[n].url # f.url

\* a text page of MAX_BYTES + 1 bytes, in two chunks, was rejected after
\* another page had been saved
C6_Witness ==
    /\ pc = "download"
    /\ saved = 1
    /\ \E f \in Range(lastFetch) :
          /\ f.url = T2
          /\ f.resp.chunks = <<MAX_BYTES, 1>>
          /\ f.res.kind = "None"

\* C7: download_pages returns the number of qualifying URLs it met, never
\* more than the quota, and less than the quota only when the whole list
\* was fetched; the run then ends without an error.
C7_ReturnsMin ==
    pc = "done" =>
        /\ ret = Len(qualified)
        /\ ret <= need
        /\ ret < need => pos = Len(collected) + 1
        /\ error = ""

\* a shortfall: two URLs, one of them qualifying, quota 2
C7_Witness ==
    pc = "done" /\ need = 2 /\ ret = 1 /\ Len(collected) = 2 /\ Len(fetchLog) >= 4

\* C8: saved never exceeds the quota, and no URL positioned after the one
\* whose save reached the quota is ever requested.
C8_StopsAtQuota ==
    /\ saved <= need
    /\ Len(qualified) >= need =>
          LET quotaPos == IF need = 0 THEN 0 ELSE qualified[need]
          IN  \A k \in (quotaPos + 1)..Len(collected) : collected[k] \notin Range(fetchLog)

\* the quota of 1 was reached at the first of two URLs
C8_Witness ==
    pc = "done" /\ need = 1 /\ saved = 1 /\ qualified = <<1>> /\ Len(collected) = 2

\* C9: the j-th index entry is numbered j and holds the j-th qualifying URL
\* of the list, in index_lines and in the index.txt written from it.
C9_IndexOrder ==
    /\ Len(index_lines) = Len(qualified)
    /\ \A j \in 1..Len(index_lines) :
          index_lines[j] = IndexLine(j, collected[qualified[j]])
    /\ \A j \in 1..(Len(qualified) - 1) : qualified[j] < qualified[j + 1]
    /\ pc = "done" => LinesOf(index_txt) = index_lines

\* the first URL was skipped and the second saved as number 1
C9_Witness ==
    pc = "done" /\ qualified = <<2>> /\ LinesOf(index_txt) = <<IndexLine(1, T2)>>

\* C10: the collected list never holds more than limit URLs, and once it
\* holds limit URLs it is not extended and the collector fetches nothing.
C10_LimitRespected ==
    /\ [](Len(collected) <= limit)
    /\ [][Len(collected) >= limit =>
            /\ collected' = collected
            /\ pc = "collect" => fetchLog' = fetchLog]_vars

\* the limit of 1 was reached at the first of two new links of one page,
\* with another author still to visit
C10_Witness ==
    /\ pc = "collect"
    /\ limit = 1
    /\ collected = <<T1>>
    /\ i <= Len(author_pages)
    /\ \E f \in Range(lastFetch) : f.links = <<T1, T2>>

\* C11: when the fetch of the seed page gives no page, the run ends at once
\* with an error (the RuntimeError of get_author_pages when fetch_html
\* returned), having fetched nothing else and written no file; nothing
\* happens after the abort.
C11_SeedFailureAborts ==
    /\ [][(pc = "start" /\ \E f \in Range(lastFetch') : f.res.kind # "str" \/ f.res.chars = 0) =>
            /\ pc' = "crashed"
            /\ error' # ""
            /\ \A f \in Range(lastFetch') : f.res.kind # "raise" => error' = "RuntimeError"
            /\ fetchLog' = <<AUTHORS_PAGE>>
            /\ UNCHANGED <<urls_txt, index_txt, dump, written>>]_vars
    /\ [][pc = "crashed" => UNCHANGED vars]_vars

\* the seed request failed on a disk that an earlier run had filled
C11_Witness ==
    /\ pc = "crashed"
    /\ error = "RuntimeError"
    /\ fetchLog = <<AUTHORS_PAGE>>
    /\ \E f \in Range(lastFetch) : f.resp.exc
    /\ index_txt.exists
    /\ DOMAIN dump = {1}

\* C12: a download fetch that gives no page of at least 1000 characters
\* leaves saved, the store and the index entries as they were; one that
\* does is saved under the number saved + 1.
C12_SkipLeavesNoTrace ==
    [][(pc = "download" /\ fetchLog' # fetchLog) =>
          IF \E f \in Range(lastFetch') : f.res.kind = "str" /\ f.res.chars >= 1000
          THEN /\ saved' = saved + 1
               /\ written' = Append(written, saved + 1)
               /\ index_lines' = Append(index_lines, IndexLine(saved + 1, collected[pos]))
               /\ DOMAIN dump' = DOMAIN dump \cup {saved + 1}
          ELSE UNCHANGED <<saved, dump, index_lines, written>>]_vars

\* a page of exactly 1000 characters was saved as number 1 after the first
\* URL had been skipped
C12_Witness ==
    /\ qualified = <<2>>
    /\ written = <<1>>
    /\ \E f \in Range(lastFetch) : f.url = collected[2] /\ f.res.chars = 1000

\* C13: a response whose Content-Type is not HTML is rejected with no chunk
\* of its body read, and its URL gets no file and no index entry.
C13_ContentTypeGate ==
    \A f \in Range(lastFetch) :
        (~f.resp.exc /\ ~IsHtmlCtype(f.resp.ctype)) =>
            /\ f.res.kind = "None"
            /\ f.res.chunksRead = 0
            /\ \A j \in 1..Len(index_lines) : index_lines[j].url # f.url
            /\ \A n \in Range(written) : dump[n].url # f.url

\* a text page answered as a PDF with a body of two chunks, after another
\* page had been saved
C13_Witness ==
    /\ pc = "download"
    /\ saved = 1
    /\ \E f \in Range(lastFetch) :
          /\ f.url = T2
          /\ f.resp.ctype = "application/pdf"
          /\ Len(f.resp.chunks) = 2
          /\ f.res.why = "not html"

\* C14: no URL is requested twice in a run, and every call of fetch_html
\* makes one politeness delay, first, and at most one GET.
C14_NoRetries ==
    /\ \A a, b \in 1..Len(fetchLog) : a # b => fetchLog[a] # fetchLog[b]
    /\ \A f \in Range(lastFetch) :
          /\ f.calls[1] = "polite_sleep"
          /\ Cardinality({k \in 1..Len(f.calls) : f.calls[k] = "polite_sleep"}) = 1
          /\ Cardinality({k \in 1..Len(f.calls) : f.calls[k] = "get"}) <= 1

\* both text pages failed, the second by a request error, and the run
\* ended with four fetches: the seed, one works list and each text page once
C14_Witness ==
    /\ pc = "done"
    /\ need = 2
    /\ saved = 0
    /\ Len(collected) = 2
    /\ Len(fetchLog) = 4
    /\ \E f \in Range(lastFetch) : f.resp.exc

\* C15: the collected list is the list of the text-page URLs linked by the
\* parsed works-list pages, in the order of the visits and of the links,
\* each URL at its first occurrence only, cut to limit entries.
C15_FirstSeenOrder ==
    collected = SubSeq(firstSeen, 1, IF Len(firstSeen) < limit THEN Len(firstSeen) ELSE limit)

\* the first author gave no text page, the second author's page links T2
\* and then T1, and the limit of 1 keeps T2 only
C15_Witness ==
    /\ pc = "download"
    /\ limit = 1
    /\ Len(fetchLog) = 3
    /\ firstSeen = <<T2, T1>>
    /\ collected = <<T2>>

\* C16: from the first text-page fetch on, and in every state of the
\* download, urls.txt holds the collected URLs, one per line in collection
\* order, each line ended by a newline, whatever the downloads do.
C16_UrlsWrittenFirst ==
    (pc \in {"download", "done"} \/ \E k \in 1..Len(fetchLog) : fetchLog[k] \in {T1, T2}) =>
        /\ urls_txt.exists
        /\ Len(urls_txt.data) = 2 * Len(collected)
        /\ \A k \in 1..Len(collected) :
              /\ urls_txt.data[2 * k - 1].t = "line"
              /\ urls_txt.data[2 * k - 1].url = collected[k]
              /\ urls_txt.data[2 * k] = NL

\* the download was aborted at its second URL without a page saved, and
\* urls.txt lists both URLs
C16_Witness ==
    /\ pc = "crashed"
    /\ Len(collected) = 2
    /\ saved = 0
    /\ \E f \in Range(lastFetch) : f.url = collected[2]
    /\ LinesOf(urls_txt) # << >>

\* C17: when the run has ended with k pages saved, the store holds the
\* files 1..k and no other, and so corresponds to index.txt.
C17_StoreIsThisRun ==
    pc = "done" =>
        /\ DOMAIN dump = 1..ret
        /\ DOMAIN dump = {LinesOf(index_txt)[j].num : j \in 1..Len(LinesOf(index_txt))}

\* C18: when download_pages has returned, index.txt exists and holds the
\* entries of this run and nothing else, each ended by a newline; it is
\* empty when no page was saved.
C18_IndexWritten ==
    pc = "done" =>
        /\ index_txt.exists
        /\ Len(index_txt.data) = 2 * Len(index_lines)
        /\ \A j \in 1..Len(index_lines) :
              /\ index_txt.data[2 * j - 1] = [t |-> "line", num |-> j, url |-> collected[qualified[j]]]
              /\ index_txt.data[2 * j] = NL
        /\ ret = 0 => index_txt.data = << >>
        /\ (index_txt.data # << >> /\ index_txt.data[Len(index_txt.data)] = NL) <=> ret >= 1

\* no page was saved and the index of an earlier run, which had one entry,
\* was replaced by an empty file
C18_Witness ==
    /\ pc = "done"
    /\ ret = 0
    /\ index_txt = [exists |-> TRUE, data |-> << >>]
    /\ DOMAIN dump = {1}
    /\ need = 0 \/ collected = << >>

\* C19: a fetch that returns the empty string is handled as one that
\* returns None: at the seed the run aborts with the RuntimeError, in the
\* collector the author is skipped, in the downloader the URL is skipped.
C19_EmptyBodyIsFailure ==
    [][(fetchLog' # fetchLog
          /\ \E f \in Range(lastFetch') : f.res.kind \in {"None", "str"} /\ f.res.chars = 0) =>
            /\ pc = "start" =>
                  /\ pc' = "crashed"
                  /\ error' = "RuntimeError"
                  /\ author_pages' = author_pages
            /\ pc = "collect" =>
                  /\ i' = i + 1
                  /\ UNCHANGED <<pc, error, collected, seen>>
            /\ pc = "download" =>
                  /\ pos' = pos + 1
                  /\ UNCHANGED <<pc, error, saved, dump, index_lines, written>>]_vars

\* the seed page came with status 200, an HTML type and no byte of body
\* (the requests of a text page and of a works list with an empty body are
\* reached as well)
C19_Witness ==
    /\ pc = "crashed"
    /\ error = "RuntimeError"
    /\ \E f \in Range(lastFetch) :
          /\ f.url = AUTHORS_PAGE
          /\ f.res.kind = "str"
          /\ f.res.chars = 0

\* the phases of main, in the order they are passed through
Phase(p) ==
    CASE p = "start" -> 0
      [] p = "collect" -> 1
      [] p = "download" -> 2
      [] OTHER -> 3

\* C20: the run makes at most 1 + A + L fetches, A the number of distinct
\* author pages and L the length of the collected list; every step makes
\* one fetch or moves main to a later phase, and a fetch in a loop moves the
\* loop to its next position; the run never stops before it has ended.
C20_Terminates ==
    /\ [](Len(fetchLog) <= 1 + Cardinality(Range(author_pages)) + Len(collected))
    /\ []((pc \notin {"done", "crashed"}) => ENABLED Next)
    /\ [][/\ \/ Len(fetchLog') = Len(fetchLog) + 1 /\ Phase(pc') >= Phase(pc)
             \/ fetchLog' = fetchLog /\ Phase(pc') > Phase(pc)
          /\ i' >= i
          /\ pos' >= pos
          /\ (fetchLog' # fetchLog /\ pc = "collect" /\ pc' = "collect") => i' = i + 1
          /\ (fetchLog' # fetchLog /\ pc = "download" /\ pc' = "download") => pos' = pos + 1]_vars

\* a run that ended with every fetch it could make: the seed, two authors
\* and two text pages
C20_Witness ==
    /\ pc = "done"
    /\ Len(author_pages) = 2
    /\ Len(collected) = 2
    /\ Len(fetchLog) = 5

====
